---- MODULE Spec2Model ----
(***************************************************************************)
(* Connected-endpoint cache of the cabling topology.                       *)
(*                                                                         *)
(*   dcim/signals.py                      update_connected_endpoints and   *)
(*                                        nullify_connected_endpoints, the *)
(*                                        incremental handlers of a Cable  *)
(*   extras/management/commands/retrace.py  Command.handle, the batch      *)
(*                                        rebuild                          *)
(*                                                                         *)
(* CableTermination.trace() and get_path_endpoints() live in dcim/models,  *)
(* which is not part of the sources at hand; they follow the design        *)
(* document (sections 4.1 and 4.4).                                        *)
(***************************************************************************)
EXTENDS Integers, Sequences, FiniteSets, TLC

VARIABLES
    status,              \* Cable.status per cable slot, Absent when the cable does not exist
    cable,               \* CableTermination.cable per termination (NoCable when none)
    connected_endpoint,  \* cache field per termination
    connection_status,   \* cache field per termination
    last,                \* history: the operation that produced this state
    scan                 \* the batch rebuild run step by step: where each worker stands

vars == <<status, cable, connected_endpoint, connection_status, last, scan>>

----------------------------------------------------------------------------
(* Bounds *)

\* most cables that exist at the same time
MaxCables == 5

\* deepest nesting of splits that get_path_endpoints() follows
MaxDepth == 3

----------------------------------------------------------------------------
(* The device inventory: terminations, their types, the port mappings *)

None == "None"
True == "True"
False == "False"
NoCable == 0
Absent == "absent"

STATUS_CONNECTED == "connected"
STATUS_PLANNED == "planned"
CableStatusChoices == {STATUS_CONNECTED, STATUS_PLANNED}

Interfaces == {"I1", "I2", "I3"}
CircuitTerminations == {"CT"}
FrontPorts == {"FA1", "FA2", "FB1", "FB2", "FS"}
RearPorts == {"RA", "RB", "RS", "RX"}

Ports == FrontPorts \cup RearPorts
RealEndpoints == Interfaces \cup CircuitTerminations
Terminations == RealEndpoints \cup Ports

\* RearPort.positions
positions(r) ==
    CASE r = "RA" -> 2
      [] r = "RB" -> 2
      [] r = "RS" -> 1
      [] r = "RX" -> 1

\* FrontPort.rear_port
rear_port(f) ==
    CASE f \in {"FA1", "FA2"} -> "RA"
      [] f \in {"FB1", "FB2"} -> "RB"
      [] f = "FS" -> "RS"

\* FrontPort.rear_port_position
rear_port_position(f) ==
    CASE f \in {"FA1", "FB1", "FS"} -> 1
      [] f \in {"FA2", "FB2"} -> 2

\* the front port mapped to a position of a rear port, None when the position is unmapped
MappingTable ==
    [r \in RearPorts |-> [p \in 1 .. 2 |->
        LET fs == {f \in FrontPorts : rear_port(f) = r /\ rear_port_position(f) = p}
        IN IF fs = {} THEN None ELSE CHOOSE f \in fs : TRUE]]
get_mapping(r, p) == MappingTable[r][p]

\* the cables an external actor may ask for: <<termination_a, termination_b>>
CableSlots ==
    << <<"I1", "I2">>,     \* straight through
       <<"I1", "FA1">>,    \* position 1 of RA
       <<"I2", "FA2">>,    \* position 2 of RA
       <<"RA", "RB">>,     \* trunk between the two multi-position rear ports
       <<"FB1", "I3">>,    \* position 1 of RB
       <<"FB2", "CT">>,    \* position 2 of RB
       <<"I1", "RS">>,     \* into the single-position rear port
       <<"FS", "I2">>,     \* out of its front port
       <<"I3", "RA">>,     \* an interface straight on a multi-position rear port
       <<"CT", "RX">>,     \* a rear port whose position has no front port
       <<"FS", "RS">>,     \* a front port on its own rear port: a cycle
       <<"I3", "CT">>,     \* straight through, interface to circuit termination
       <<"RS", "RB">>,     \* single-position rear port on a multi-position one
       <<"FS", "FA1">>,    \* front port to front port
       <<"FB1", "FA2">> >> \* position 1 of RB on position 2 of RA: with the trunk, a cycle

Cables == 1 .. Len(CableSlots)

\* the cables asked for only while no batch rebuild runs
ExtraSlots == { <<"I3", "CT">>, <<"RS", "RB">>, <<"FS", "FA1">> }
\* the cables asked for only where the topology is not kept free of cycles
LoopSlots == { <<"FB1", "FA2">> }
AcyclicCables == {c \in Cables : CableSlots[c] \notin LoopSlots}
BatchCables == {c \in AcyclicCables : CableSlots[c] \notin ExtraSlots}

\* the cables of a topology that holds cycles: one that the trace of an interface
\* runs into, one of a front port cabled to its own rear port, and beside them a
\* straight cable
LoopCables ==
    {c \in Cables : CableSlots[c] \in { <<"I1", "FA1">>, <<"RA", "RB">>, <<"FB1", "FA2">>,
                                        <<"FS", "RS">>, <<"I3", "CT">> }}

\* the cables at the interface I3 and at the circuit termination
FewCables ==
    {c \in BatchCables : {CableSlots[c][1], CableSlots[c][2]} \cap {"I3", "CT"} # {}}

termination_a(c) == CableSlots[c][1]
termination_b(c) == CableSlots[c][2]

----------------------------------------------------------------------------
(* CableTermination.trace(), design document 4.1 *)

\* the far side of the cable `c` seen from termination `t`
get_far_side(c, t) ==
    IF termination_a(c) = t THEN termination_b(c)
    ELSE IF termination_b(c) = t THEN termination_a(c)
    ELSE None

Pop(s) == SubSeq(s, 1, Len(s) - 1)
Top(s) == s[Len(s)]

\* a path is a sequence of segments <<termination, cable, next_termination>>
RECURSIVE TraceFrom(_, _, _, _, _)
TraceFrom(cab, current, path, stack, visited) ==
    IF current \in visited THEN
        \* the visited-termination guard
        [path |-> path, split_ends |-> FALSE, position_stack |-> stack, cycle |-> TRUE]
    ELSE IF cab[current] = NoCable THEN
        [path |-> Append(path, <<current, NoCable, None>>), split_ends |-> FALSE,
         position_stack |-> stack, cycle |-> FALSE]
    ELSE
        LET c == cab[current]
            next == get_far_side(c, current)
            p2 == Append(path, <<current, c, next>>)
            v2 == visited \cup {current}
            stop == [path |-> p2, split_ends |-> FALSE, position_stack |-> stack,
                     cycle |-> FALSE]
        IN IF next = None THEN stop
           ELSE IF next \in RealEndpoints THEN stop
           ELSE IF next \in FrontPorts THEN
               TraceFrom(cab, rear_port(next), p2,
                         IF positions(rear_port(next)) > 1
                         THEN Append(stack, rear_port_position(next)) ELSE stack,
                         v2)
           ELSE IF positions(next) = 1 THEN
               IF get_mapping(next, 1) = None THEN stop
               ELSE TraceFrom(cab, get_mapping(next, 1), p2, stack, v2)
           ELSE IF stack # <<>> THEN
               IF get_mapping(next, Top(stack)) = None
               THEN [stop EXCEPT !.position_stack = Pop(stack)]
               ELSE TraceFrom(cab, get_mapping(next, Top(stack)), p2, Pop(stack), v2)
           ELSE [stop EXCEPT !.split_ends = TRUE]

trace(cab, start) == TraceFrom(cab, start, <<>>, <<>>, {})

\* the front ports of a rear port, by position
frontports(r) ==
    LET ps == {p \in 1 .. positions(r) : get_mapping(r, p) # None}
        RECURSIVE Build(_)
        Build(p) == IF p > positions(r) THEN <<>>
                    ELSE (IF p \in ps THEN <<get_mapping(r, p)>> ELSE <<>>) \o Build(p + 1)
    IN Build(1)

\* CableTermination.get_path_endpoints(): the far ends of the paths that traverse
\* a termination; where the trace splits, those of every front port of the split
RECURSIVE get_path_endpoints(_, _, _)
RECURSIVE PathEndpointsOfAll(_, _, _)
get_path_endpoints(cab, t, depth) ==
    LET tr == trace(cab, t)
        endpoint == tr.path[Len(tr.path)][3]
    IN IF tr.cycle \/ depth = 0 THEN <<>>
       ELSE IF tr.split_ends THEN PathEndpointsOfAll(cab, frontports(endpoint), depth - 1)
       ELSE IF endpoint # None THEN <<endpoint>>
       ELSE <<>>
PathEndpointsOfAll(cab, ts, depth) ==
    IF ts = <<>> THEN <<>>
    ELSE get_path_endpoints(cab, Head(ts), depth) \o PathEndpointsOfAll(cab, Tail(ts), depth)

\* the topology is free of cycles: no trace trips the visited guard
Acyclic(cab) == \A t \in Terminations : cab[t] # NoCable => ~trace(cab, t).cycle

----------------------------------------------------------------------------
(* Resolution of one traced path: signals.py 57-75, retrace.py 77-95 *)

\* mutant: segments without a cable are skipped
path_status_of_cables(st, path) ==
    IF \A i \in 1 .. Len(path) :
           path[i][2] # NoCable => st[path[i][2]] = STATUS_CONNECTED
    THEN True ELSE False

\* overall path status: connected only if every segment has a connected cable
path_status(st, path) ==
    IF \A i \in 1 .. Len(path) :
           /\ path[i][2] # NoCable
           /\ st[path[i][2]] = STATUS_CONNECTED
    THEN True ELSE False

endpoint_a(tr) == tr.path[1][1]

\* mutant: the far end of the first segment is taken, not of the last
endpoint_b_first(tr) ==
    IF ~tr.split_ends /\ tr.position_stack = <<>> THEN tr.path[1][3] ELSE None

endpoint_b(tr) ==
    LET path == tr.path
        n == Len(path)
    IN IF ~tr.split_ends /\ tr.position_stack = <<>> THEN
           IF path[n][3] = None /\ n >= 2 /\ path[n - 1][3] \in CircuitTerminations
           THEN path[n - 1][3]
           ELSE path[n][3]
       ELSE None

\* mutant: RearPort is missing from the isinstance() tuple
IsNotFrontPort(t) == t \in Terminations /\ t \notin FrontPorts

\* patch panel ports are not connected endpoints, all other cable terminations are
IsConnectedEndpoint(t) == t \in Terminations /\ t \notin Ports

IsConnectedPair(a, b) == IsConnectedEndpoint(a) /\ IsConnectedEndpoint(b)

\* mutant: the fallback is applied to an ambiguous path as well
retrace_endpoint_b_ambiguous(tr) ==
    LET path == tr.path
        n == Len(path)
        last_b == IF ~tr.split_ends /\ tr.position_stack = <<>> THEN path[n][3] ELSE None
    IN IF last_b = None /\ n >= 2 /\ path[n - 1][3] \in CircuitTerminations
       THEN path[n - 1][3]
       ELSE last_b

\* endpoint_b as Command.handle computes it, retrace.py 85-91
retrace_endpoint_b(tr) ==
    LET path == tr.path
        n == Len(path)
    IN IF tr.split_ends \/ tr.position_stack # <<>> THEN None
       ELSE IF path[n][3] # None THEN path[n][3]
       ELSE IF n >= 2 /\ path[n - 1][3] \in CircuitTerminations THEN path[n - 1][3]
       ELSE None

\* the cache: both fields of every termination, the number of save() calls, the
\* endpoints whose reconciliation ran to its end, and whether a trace raised the
\* cycle error
\* mutant: endpoint_a is given itself as its connected endpoint
SetConnectionToSelf(cache, a, b, sa, sb) ==
    [cache EXCEPT !.ce = [@ EXCEPT ![a] = a, ![b] = a],
                  !.cs = [@ EXCEPT ![a] = sa, ![b] = sb],
                  !.writes = @ + 2]

\* mutant: endpoint_b is always recorded as fully connected
SetConnectionBConnected(cache, a, b, sa, sb) ==
    [cache EXCEPT !.ce = [@ EXCEPT ![a] = b, ![b] = a],
                  !.cs = [@ EXCEPT ![a] = sa, ![b] = True],
                  !.writes = @ + 2]

\* mutant: the endpoint is saved with its status only
save_endpoint_status_only(cache, e, peer, s) ==
    [cache EXCEPT !.cs = [@ EXCEPT ![e] = s],
                  !.writes = @ + 1]

\* one endpoint is given its connected endpoint and status and saved
save_endpoint(cache, e, peer, s) ==
    [cache EXCEPT !.ce = [@ EXCEPT ![e] = peer],
                  !.cs = [@ EXCEPT ![e] = s],
                  !.writes = @ + 1]

\* endpoint_a is saved, then endpoint_b
SetConnection(cache, a, b, sa, sb) ==
    save_endpoint(save_endpoint(cache, a, b, sa), b, a, sb)

\* mutant: the connected endpoint is cleared, the status is left as it was
ClearConnectionKeepStatus(cache, a, s) ==
    [cache EXCEPT !.ce = [@ EXCEPT ![a] = None],
                  !.writes = @ + 1]

ClearConnection(cache, a, s) ==
    [cache EXCEPT !.ce = [@ EXCEPT ![a] = None],
                  !.cs = [@ EXCEPT ![a] = s],
                  !.writes = @ + 1]

\* endpoint.trace() raised the cycle error: neither the handler nor the command
\* catches it, so the loop ends there and what was saved before stays saved
CycleError(cache) == [cache EXCEPT !.cycle_error = TRUE]

----------------------------------------------------------------------------
(* dcim/signals.py *)

\* mutant: only termination A is given the cable
cache_cable_a_only(cab, c) == [cab EXCEPT ![termination_a(c)] = c]

\* the cable is cached on its two termination points, signals.py 43-51
cache_cable(cab, c) == [cab EXCEPT ![termination_a(c)] = c, ![termination_b(c)] = c]

\* the cable is disassociated from its termination points, signals.py 94-102
nullify_cable(cab, c) ==
    [cab EXCEPT ![termination_a(c)] = NoCable, ![termination_b(c)] = NoCable]

\* the body of the loop of update_connected_endpoints, for one traced endpoint
update_endpoint(st, cache, tr) ==
    LET ps == path_status(st, tr.path)
        a == endpoint_a(tr)
        b == endpoint_b(tr)
    IN IF IsConnectedPair(a, b) THEN SetConnection(cache, a, b, ps, ps)
       ELSE cache

\* mutant: the loop ends after the first endpoint
update_first_endpoint(cab, st, cache, endpoints) ==
    IF endpoints = <<>> THEN cache
    ELSE
        LET tr == trace(cab, Head(endpoints))
        IN IF tr.cycle THEN CycleError(cache) ELSE update_endpoint(st, cache, tr)

\* the loop of update_connected_endpoints over the endpoints of the saved cable
RECURSIVE update_endpoints(_, _, _, _)
update_endpoints(cab, st, cache, endpoints) ==
    IF endpoints = <<>> THEN cache
    ELSE
        LET tr == trace(cab, Head(endpoints))
        IN IF tr.cycle THEN CycleError(cache)
           ELSE update_endpoints(cab, st, update_endpoint(st, cache, tr), Tail(endpoints))

\* mutant: the loop ends after the first endpoint
nullify_first_endpoint(cache, endpoints) ==
    IF endpoints = <<>> \/ Head(endpoints) \notin RealEndpoints THEN cache
    ELSE ClearConnection(cache, Head(endpoints), None)

\* the loop of nullify_connected_endpoints over the endpoints of the deleted cable
RECURSIVE nullify_endpoints(_, _)
nullify_endpoints(cache, endpoints) ==
    IF endpoints = <<>> THEN cache
    ELSE nullify_endpoints(
             IF Head(endpoints) \in RealEndpoints
             THEN ClearConnection(cache, Head(endpoints), None)
             ELSE cache,
             Tail(endpoints))

----------------------------------------------------------------------------
(* extras/management/commands/retrace.py *)

INTERFACE == "dcim.Interface"
CIRCUITTERMINATION == "circuits.CircuitTermination"
FRONTPORT == "dcim.FrontPort"
DEVICE == "dcim.Device"

\* issubclass(model, CableTermination) and hasattr(model, 'connected_endpoint')
HasConnectedEndpoint(model) == model \in {INTERFACE, CIRCUITTERMINATION}

\* model.objects.all()
objects(model) ==
    CASE model = INTERFACE -> <<"I1", "I2", "I3">>
      [] model = CIRCUITTERMINATION -> <<"CT">>
      [] model = FRONTPORT -> <<"FA1", "FA2", "FB1", "FB2", "FS">>
      [] OTHER -> <<>>

\* mutant: a model without a connected endpoint is skipped, the others are retraced
get_models_skipping(names) ==
    [error |-> FALSE,
     models |-> IF names = <<>> THEN <<CIRCUITTERMINATION, INTERFACE>>
                ELSE SelectSeq(names, HasConnectedEndpoint)]

\* Command._get_models: the models to retrace, or a CommandError
get_models(names) ==
    IF names # <<>> THEN
        IF \E i \in 1 .. Len(names) : ~HasConnectedEndpoint(names[i])
        THEN [error |-> TRUE, models |-> <<>>]
        ELSE [error |-> FALSE, models |-> names]
    ELSE [error |-> FALSE, models |-> <<CIRCUITTERMINATION, INTERFACE>>]

\* the body of the loop of Command.handle, for one traced endpoint
retrace_endpoint(st, cache, tr) ==
    LET ps == path_status(st, tr.path)
        a == endpoint_a(tr)
        b == retrace_endpoint_b(tr)
        written == IF IsConnectedPair(a, b) THEN SetConnection(cache, a, b, ps, ps)
                   ELSE IF b = None THEN ClearConnection(cache, a, ps)
                   ELSE cache
    IN [written EXCEPT !.done = @ \cup {a}]

\* mutant: a trace that tripped the visited guard is used like any other
retrace_endpoints_truncating(cab, st, cache, endpoints) ==
    LET RECURSIVE Loop(_, _)
        Loop(ch, es) ==
            IF es = <<>> THEN ch
            ELSE Loop(retrace_endpoint(st, ch, trace(cab, Head(es))), Tail(es))
    IN Loop(cache, endpoints)

\* the loop of Command.handle over the instances of one model
RECURSIVE retrace_endpoints(_, _, _, _)
retrace_endpoints(cab, st, cache, endpoints) ==
    IF endpoints = <<>> THEN cache
    ELSE
        LET tr == trace(cab, Head(endpoints))
        IN IF tr.cycle THEN CycleError(cache)
           ELSE retrace_endpoints(cab, st, retrace_endpoint(st, cache, tr), Tail(endpoints))

\* the loop of Command.handle over the models
RECURSIVE retrace_models(_, _, _, _)
retrace_models(cab, st, cache, models) ==
    IF models = <<>> \/ cache.cycle_error THEN cache
    ELSE retrace_models(cab, st,
             retrace_endpoints(cab, st, cache, objects(Head(models))),
             Tail(models))

\* every instance of the models, in the order the command visits them
RECURSIVE instances(_)
instances(models) ==
    IF models = <<>> THEN <<>> ELSE objects(Head(models)) \o instances(Tail(models))

----------------------------------------------------------------------------
(* State machine *)

Range(s) == {s[i] : i \in 1 .. Len(s)}

\* the cables of a path
PathCables(path) == {path[i][2] : i \in 1 .. Len(path)} \ {NoCable}

NumCables == Cardinality({c \in Cables : status[c] # Absent})

Cache ==
    [ce |-> connected_endpoint, cs |-> connection_status, writes |-> 0,
     done |-> {}, cycle_error |-> FALSE]

\* the result of no trace at all
NoTrace == [path |-> <<>>, split_ends |-> FALSE, position_stack |-> <<>>, cycle |-> FALSE]

\* op: the operation; c: the cable deleted; for a batch rebuild its
\* arguments, the number of save() calls it made, whether it repeats the run
\* before it, and the endpoints it reconciled; cycle_error: a trace raised the
\* cycle error and ended the operation; tr: the trace result a loop body was run on
NoLast ==
    [op |-> "init", c |-> NoCable, names |-> <<>>, writes |-> 0, repeat |-> FALSE,
     done |-> {}, cycle_error |-> FALSE, tr |-> NoTrace]

\* the workers of a batch rebuild that is run step by step
Workers == {"w1", "w2"}

\* no pair is half saved
NoPending == [a |-> None, b |-> None, ps |-> None]

\* state: idle, running, done, interrupted or error; share: the instances the worker
\* was given; todo: those it has not finished; pending: the pair of which endpoint_a
\* is saved and endpoint_b not yet; wrote: the endpoints it has saved
IdleWorker ==
    [state |-> "idle", share |-> <<>>, todo |-> <<>>, pending |-> NoPending, wrote |-> {}]
NoScan == [w \in Workers |-> IdleWorker]

Init ==
    /\ status = [c \in Cables |-> Absent]
    /\ cable = [t \in Terminations |-> NoCable]
    /\ connected_endpoint = [t \in Terminations |-> None]
    /\ connection_status = [t \in Terminations |-> None]
    /\ last = NoLast
    /\ scan = NoScan

\* post_save of a Cable: update_connected_endpoints, signals.py 34-82
PostSave(c, st) ==
    LET cab == cache_cable(cable, c)
        endpoints == get_path_endpoints(cab, termination_a(c), MaxDepth)
                     \o get_path_endpoints(cab, termination_b(c), MaxDepth)
    IN \E cache \in {update_endpoints(cab, st, Cache, endpoints)} :
       /\ status' = st
       /\ cable' = cab
       /\ connected_endpoint' = cache.ce
       /\ connection_status' = cache.cs
       /\ last' = [NoLast EXCEPT !.op = "save", !.cycle_error = cache.cycle_error]
       /\ UNCHANGED scan

\* a cable is created between two free terminations and saved
CreateCable(c, s) ==
    /\ status[c] = Absent
    /\ cable[termination_a(c)] = NoCable
    /\ cable[termination_b(c)] = NoCable
    /\ NumCables < MaxCables
    /\ Acyclic([cable EXCEPT ![termination_a(c)] = c, ![termination_b(c)] = c])
    /\ PostSave(c, [status EXCEPT ![c] = s])

\* a cable is created between two free terminations and saved, whether or not it
\* closes a cycle
CreateAnyCable(c, s) ==
    /\ status[c] = Absent
    /\ cable[termination_a(c)] = NoCable
    /\ cable[termination_b(c)] = NoCable
    /\ NumCables < MaxCables
    /\ PostSave(c, [status EXCEPT ![c] = s])

\* the status of an existing cable is changed and the cable saved
UpdateCable(c, s) ==
    /\ status[c] \notin {Absent, s}
    /\ PostSave(c, [status EXCEPT ![c] = s])

\* pre_delete of a Cable: nullify_connected_endpoints, signals.py 85-110,
\* then the cable is removed
DeleteCable(c) ==
    /\ status[c] # Absent
    /\ LET endpoints == get_path_endpoints(cable, termination_a(c), MaxDepth)
                        \o get_path_endpoints(cable, termination_b(c), MaxDepth)
       IN \E cache \in {nullify_endpoints(Cache, endpoints)} :
          /\ cable' = nullify_cable(cable, c)
          /\ connected_endpoint' = cache.ce
          /\ connection_status' = cache.cs
          /\ status' = [status EXCEPT ![c] = Absent]
          /\ last' = [NoLast EXCEPT !.op = "delete", !.c = c]
          /\ UNCHANGED scan

\* the argument lists the operator may give the batch command
RetraceArgs == { <<>>, <<INTERFACE>> }

\* argument lists that name a model without a connected endpoint
InvalidArgs == { <<INTERFACE, FRONTPORT>>, <<DEVICE>> }

\* manage.py retrace: Command.handle, retrace.py 58-126
Retrace(names) ==
    LET m == get_models(names)
    IN \E cache \in {retrace_models(cable, status, Cache, m.models)} :
       /\ connected_endpoint' = cache.ce
       /\ connection_status' = cache.cs
       /\ last' = [NoLast EXCEPT
                     !.op = IF m.error THEN "error" ELSE "retrace",
                     !.names = names,
                     !.writes = cache.writes,
                     !.repeat = last.op = "retrace" /\ last.names = names,
                     !.done = cache.done,
                     !.cycle_error = cache.cycle_error]
       /\ UNCHANGED <<status, cable, scan>>

\* the cable events over a set of cables
Events(cs) ==
    \/ \E c \in cs, s \in CableStatusChoices : CreateCable(c, s)
    \/ \E c \in cs, s \in CableStatusChoices : UpdateCable(c, s)
    \/ \E c \in cs : DeleteCable(c)

Incremental == Events(AcyclicCables)

Next ==
    \/ Events(BatchCables)
    \/ \E names \in RetraceArgs : Retrace(names)

\* cable events and batch rebuilds in any order
Spec == Init /\ [][Next]_vars

\* cable events only, each with its incremental handler
SpecIncremental == Init /\ [][Incremental]_vars

\* A database whose cache was written by an earlier release or algorithm: the
\* topology starts empty, but the interface I3 and the circuit termination are still
\* cached as connected to each other (the batch rebuild assumes nothing about the
\* cache it finds).
InitStale ==
    /\ status = [c \in Cables |-> Absent]
    /\ cable = [t \in Terminations |-> NoCable]
    /\ connected_endpoint =
          [t \in Terminations |-> IF t = "I3" THEN "CT" ELSE IF t = "CT" THEN "I3" ELSE None]
    /\ connection_status =
          [t \in Terminations |-> IF t \in {"I3", "CT"} THEN True ELSE None]
    /\ last = NoLast
    /\ scan = NoScan

NextFew ==
    \/ Events(FewCables)
    \/ \E names \in RetraceArgs \cup InvalidArgs : Retrace(names)

\* the cables at the stale endpoints and batch rebuilds, from a stale cache
SpecStale == InitStale /\ [][NextFew]_vars

\* the same from an empty cache
SpecFew == Init /\ [][NextFew]_vars

NextLoop ==
    \/ \E c \in LoopCables, s \in CableStatusChoices : CreateAnyCable(c, s)
    \/ \E c \in LoopCables, s \in CableStatusChoices : UpdateCable(c, s)
    \/ \E c \in LoopCables : DeleteCable(c)
    \/ \E names \in RetraceArgs : Retrace(names)

\* cable events and batch rebuilds on a topology that is not kept free of cycles
SpecLoop == Init /\ [][NextLoop]_vars

\* What trace() may hand to the loop bodies, beyond what the walk of 4.1 yields on
\* the inventory above (a trace that runs on through a circuit has a circuit
\* termination as the far end of a segment that is not the last): paths of one or
\* two segments over the cables 1 and 2, with either flag.
TracedCables == {1, 2}
CircuitPeer == "CTz"
FirstSegments ==
    {s \in {<<a, 1, n>> : a \in {"I1", "CT"}, n \in {"I2", "CT", "FS"}} : s[1] # s[3]}
SecondSegments(n) ==
    LET t == IF n \in FrontPorts THEN rear_port(n) ELSE CircuitPeer
    IN {<<t, NoCable, None>>, <<t, 2, None>>, <<t, 2, "I3">>, <<t, 2, "RX">>}
TracedPaths ==
    {<< <<a, NoCable, None>> >> : a \in {"I1", "CT"}}
    \cup {<<s>> : s \in FirstSegments}
    \cup UNION {{<<s, t>> : t \in SecondSegments(s[3])} : s \in FirstSegments}
TraceResults ==
    [path : TracedPaths, split_ends : BOOLEAN, position_stack : {<<>>, <<1>>},
     cycle : {FALSE}]
TracedStatus ==
    {[c \in Cables |-> IF c \in TracedCables THEN st[c] ELSE Absent] :
        st \in [TracedCables -> CableStatusChoices]}

\* the loop body of update_connected_endpoints run on one trace result
UpdateTraced(tr, st) ==
    /\ last.op = "init"
    /\ \E cache \in {update_endpoint(st, Cache, tr)} :
        /\ connected_endpoint' = cache.ce
        /\ connection_status' = cache.cs
        /\ last' = [NoLast EXCEPT !.op = "update_endpoint", !.tr = tr]
    /\ UNCHANGED <<status, cable, scan>>

\* the loop body of Command.handle run on one trace result
RetraceTraced(tr, st) ==
    /\ last.op = "init"
    /\ \E cache \in {retrace_endpoint(st, Cache, tr)} :
        /\ connected_endpoint' = cache.ce
        /\ connection_status' = cache.cs
        /\ last' = [NoLast EXCEPT !.op = "retrace_endpoint", !.tr = tr,
                                   !.writes = cache.writes]
    /\ UNCHANGED <<status, cable, scan>>

NextResolve ==
    \/ \E tr \in TraceResults, st \in TracedStatus : UpdateTraced(tr, st)
    \/ \E tr \in TraceResults, st \in TracedStatus : RetraceTraced(tr, st)

\* one resolution of either entry point on any trace result
SpecResolve == Init /\ [][NextResolve]_vars

\* The loop of Command.handle run step by step, by one worker over all instances
\* (the command as it is) or by two workers over disjoint shares of them; an
\* operator interrupt may reach a worker between any two statements.

\* the cables over which the step-by-step rebuild is run
ScanCables ==
    {c \in Cables : CableSlots[c] \in { <<"I1", "I2">>, <<"I1", "RS">>, <<"FS", "I2">>,
                                        <<"I3", "CT">> }}

\* the shares of the instances of all models with a connected endpoint
Share(s1, s2) == [w \in Workers |-> IF w = "w1" THEN s1 ELSE s2]
Shares ==
    { Share(<<"CT", "I1", "I2", "I3">>, <<>>),
      Share(<<"CT", "I1">>, <<"I2", "I3">>),
      Share(<<"CT", "I2">>, <<"I1", "I3">>) }

ScanIdle == scan = NoScan

StartScan(sh) ==
    /\ ScanIdle
    /\ scan' = [w \in Workers |->
                   [IdleWorker EXCEPT !.state = IF sh[w] = <<>> THEN "done" ELSE "running",
                                      !.share = sh[w],
                                      !.todo = sh[w]]]
    /\ UNCHANGED <<status, cable, connected_endpoint, connection_status, last>>

\* the worker is through with the endpoint at the head of its list (count += 1)
NextEndpoint(wk) ==
    [wk EXCEPT !.todo = Tail(@),
               !.pending = NoPending,
               !.state = IF Tail(wk.todo) = <<>> THEN "done" ELSE "running"]

\* retrace.py 76-103 and 107-117: the endpoint is traced and resolved and
\* endpoint_a is saved
ResolveStep(w) ==
    /\ scan[w].state = "running"
    /\ scan[w].pending = NoPending
    /\ LET tr == trace(cable, Head(scan[w].todo))
           ps == path_status(status, tr.path)
           a == endpoint_a(tr)
           b == retrace_endpoint_b(tr)
       IN \E cache \in {IF tr.cycle THEN Cache
                         ELSE IF IsConnectedPair(a, b) THEN save_endpoint(Cache, a, b, ps)
                         ELSE IF b = None THEN ClearConnection(Cache, a, ps)
                         ELSE Cache} :
          /\ connected_endpoint' = cache.ce
          /\ connection_status' = cache.cs
          /\ scan' = [scan EXCEPT ![w] =
                         IF tr.cycle THEN [@ EXCEPT !.state = "error"]
                         ELSE IF IsConnectedPair(a, b)
                         THEN [@ EXCEPT !.pending = [a |-> a, b |-> b, ps |-> ps],
                                        !.wrote = @ \cup {a}]
                         ELSE IF b = None THEN [NextEndpoint(@) EXCEPT !.wrote = @ \cup {a}]
                         ELSE NextEndpoint(@)]
    /\ UNCHANGED <<status, cable, last>>

\* retrace.py 104-106 and 117: endpoint_b is saved
SavePeerStep(w) ==
    /\ scan[w].state = "running"
    /\ scan[w].pending # NoPending
    /\ LET p == scan[w].pending
       IN \E cache \in {save_endpoint(Cache, p.b, p.a, p.ps)} :
          /\ connected_endpoint' = cache.ce
          /\ connection_status' = cache.cs
          /\ scan' = [scan EXCEPT ![w] = [NextEndpoint(@) EXCEPT !.wrote = @ \cup {p.b}]]
    /\ UNCHANGED <<status, cable, last>>

\* the operator interrupts a worker where it stands
Interrupt(w) ==
    /\ scan[w].state = "running"
    /\ scan' = [scan EXCEPT ![w].state = "interrupted"]
    /\ UNCHANGED <<status, cable, connected_endpoint, connection_status, last>>

\* every worker has ended one way or another
EndScan ==
    /\ ~ScanIdle
    /\ \A w \in Workers : scan[w].state \in {"done", "interrupted", "error"}
    /\ scan' = NoScan
    /\ UNCHANGED <<status, cable, connected_endpoint, connection_status, last>>

NextScan ==
    \/ ScanIdle /\ Events(ScanCables)
    \/ \E sh \in Shares : StartScan(sh)
    \/ \E w \in Workers : ResolveStep(w)
    \/ \E w \in Workers : SavePeerStep(w)
    \/ \E w \in Workers : Interrupt(w)
    \/ EndScan

\* cable events, and between them batch rebuilds run step by step
SpecScan == Init /\ [][NextScan]_vars

TypeOK ==
    /\ scan \in [Workers -> [state : {"idle", "running", "done", "interrupted", "error"},
                              share : Seq(RealEndpoints), todo : Seq(RealEndpoints),
                              pending : [a : RealEndpoints \cup {None},
                                         b : RealEndpoints \cup {None},
                                         ps : {True, False, None}],
                              wrote : SUBSET RealEndpoints]]
    /\ status \in [Cables -> CableStatusChoices \cup {Absent}]
    /\ cable \in [Terminations -> Cables \cup {NoCable}]
    /\ connected_endpoint \in [Terminations -> Terminations \cup {None}]
    /\ connection_status \in [Terminations -> {True, False, None}]

----------------------------------------------------------------------------
(* What the design document asks of a resolution, stated apart from the handlers *)

Exists(c) == status[c] # Absent

\* the cables between two real endpoints
StraightCables ==
    {c \in Cables : termination_a(c) \in RealEndpoints /\ termination_b(c) \in RealEndpoints}

\* the cables between two multi-position rear ports
TrunkCables ==
    {c \in Cables : /\ termination_a(c) \in RearPorts /\ termination_b(c) \in RearPorts
                    /\ positions(termination_a(c)) > 1 /\ positions(termination_b(c)) > 1}

\* the far endpoint of a trace, when there is exactly one
FarEnd(tr) ==
    IF tr.split_ends \/ tr.position_stack # <<>> THEN None
    ELSE tr.path[Len(tr.path)][3]

\* both ends are real endpoints and neither is a pass-through port
Qualifies(tr) ==
    /\ tr.path[1][1] \in RealEndpoints
    /\ FarEnd(tr) \in RealEndpoints

\* every cable of the path exists and is connected, and no segment lacks a cable
FullyConnected(tr) ==
    /\ \A i \in 1 .. Len(tr.path) : tr.path[i][2] # NoCable
    /\ \A c \in PathCables(tr.path) : status[c] = STATUS_CONNECTED

\* the real endpoint cabled to the front port on position p of rear port r, if any
EndpointOn(r, p) ==
    LET f == get_mapping(r, p)
    IN IF f = None \/ cable[f] = NoCable THEN None
       ELSE IF get_far_side(cable[f], f) \in RealEndpoints THEN get_far_side(cable[f], f)
       ELSE None

\* what the cache of an endpoint must hold for the current topology
Resolution(e) ==
    LET tr == trace(cable, e)
    IN IF Qualifies(tr)
       THEN [endpoint |-> FarEnd(tr), status |-> IF FullyConnected(tr) THEN True ELSE False]
       ELSE [endpoint |-> None, status |-> None]

----------------------------------------------------------------------------
(* Claims *)

\* C1: after any sequence of cable creations, status updates and deletions, each
\* with its incremental handler, the cache of every real endpoint equals the
\* resolution of its trace against the current topology (and ports cache nothing).
CacheMatchesTopology ==
    /\ \A e \in RealEndpoints :
        /\ connected_endpoint[e] = Resolution(e).endpoint
        /\ connection_status[e] = Resolution(e).status
    /\ \A p \in Ports : connected_endpoint[p] = None /\ connection_status[p] = None

\* C1 witness: a cable was deleted, an endpoint that still has a cable lost its
\* connection and another endpoint is still connected
CacheMatchesTopologyWitness ==
    /\ last.op = "delete"
    /\ \E e \in RealEndpoints : cable[e] # NoCable /\ connected_endpoint[e] = None
    /\ \E e \in RealEndpoints : connected_endpoint[e] # None

\* C2: a saved cable between two real endpoints A and B leaves A connected to B
\* and B to A, both with status true iff the cable is in the connected state.
StraightThrough ==
    \A c \in StraightCables :
        Exists(c) =>
            LET a == termination_a(c)
                b == termination_b(c)
                s == IF status[c] = STATUS_CONNECTED THEN True ELSE False
            IN /\ connected_endpoint[a] = b
               /\ connected_endpoint[b] = a
               /\ connection_status[a] = s
               /\ connection_status[b] = s

\* C2 witness: a planned straight-through cable was just saved
StraightThroughWitness ==
    /\ last.op = "save"
    /\ \E c \in StraightCables :
        /\ status[c] = STATUS_PLANNED
        /\ \A d \in Cables \ {c} : ~Exists(d)
        /\ connected_endpoint[termination_a(c)] = termination_b(c)
        /\ connection_status[termination_b(c)] = False

\* C3: deleting a cable clears both cache fields of every real endpoint whose
\* cached connection ran through that cable, trunk cables included.
DeleteClears ==
    [][\A c \in Cables :
          (Exists(c) /\ ~Exists(c)') =>
              \A e \in RealEndpoints :
                  (/\ connected_endpoint[e] # None
                   /\ c \in PathCables(trace(cable, e).path))
                  => (connected_endpoint'[e] = None /\ connection_status'[e] = None)]_vars

\* C3 witness: the trunk was deleted while an endpoint cable hung on every front
\* port of both rear ports, and no endpoint is connected any more
DeleteClearsWitness ==
    /\ last.op = "delete"
    /\ last.c \in TrunkCables
    /\ \A r \in {termination_a(last.c), termination_b(last.c)} :
          \A p \in 1 .. positions(r) : EndpointOn(r, p) # None
    /\ \A e \in RealEndpoints : connected_endpoint[e] = None /\ connection_status[e] = None

\* C4 (as claimed): a batch rebuild that repeats the run before it, with nothing
\* changed in between, saves no endpoint.
RebuildTwiceNoWrites ==
    (last.op = "retrace" /\ last.repeat) => last.writes = 0

\* C5: a pair is recorded iff both ends are real endpoints and neither is a front
\* or rear port: an endpoint has a cached connection exactly when its trace
\* qualifies, the connection is the far end of that trace, and no port is ever
\* cached or caches anything.
AcceptanceRule ==
    \A t \in Terminations :
        /\ connected_endpoint[t] # None <=> Qualifies(trace(cable, t))
        /\ connected_endpoint[t] # None =>
              /\ connected_endpoint[t] = FarEnd(trace(cable, t))
              /\ t \notin Ports
              /\ connected_endpoint[t] \notin Ports

\* C5 witness: after a batch rebuild an endpoint whose trace ends, unambiguously,
\* at a port has no connection, while another endpoint has one
AcceptanceRuleWitness ==
    /\ last.op = "retrace"
    /\ \E e \in RealEndpoints :
        /\ FarEnd(trace(cable, e)) \in Ports
        /\ connected_endpoint[e] = None
    /\ \E e \in RealEndpoints : connected_endpoint[e] # None

\* the endpoints re-resolved by the step: those of the cable it saved, or the
\* instances the batch rebuild visited
SavedEndpoints(c, cab) ==
    Range(get_path_endpoints(cab, termination_a(c), MaxDepth)
          \o get_path_endpoints(cab, termination_b(c), MaxDepth))

\* C6 (as claimed): an endpoint that is re-resolved by the save handler or by the
\* batch rebuild and does not qualify has no connection cached afterwards.
UnqualifiedIsCleared ==
    [][/\ \A c \in Cables :
            (Exists(c)' /\ status'[c] # status[c]) =>
                \A e \in SavedEndpoints(c, cable') \cap RealEndpoints :
                    ~Qualifies(trace(cable', e)) => connected_endpoint'[e] = None
       /\ last'.op = "retrace" =>
            \A e \in Range(instances(get_models(last'.names).models)) :
                ~Qualifies(trace(cable', e)) => connected_endpoint'[e] = None]_vars

\* C7 (as claimed): the status of a path is connected iff the path has at least
\* one cable and every cable it traverses is in the connected state.
StatusIffCablesConnected ==
    \A t \in Terminations :
        LET tr == trace(cable, t)
        IN path_status(status, tr.path) = True
           <=> (/\ PathCables(tr.path) # {}
                /\ \A c \in PathCables(tr.path) : status[c] = STATUS_CONNECTED)

\* C7 (amended): the status of a path is connected iff every segment of the path
\* has a cable and that cable is in the connected state, so a dead-end segment
\* without a cable demotes the path too; a recorded connection over a path with a
\* planned cable has status false, and an endpoint without a cable that the batch
\* rebuild visited has status false.
StatusIffEverySegmentConnected ==
    /\ \A t \in Terminations :
          path_status(status, trace(cable, t).path) = True
          <=> FullyConnected(trace(cable, t))
    /\ \A e \in RealEndpoints :
          (/\ connected_endpoint[e] # None
           /\ \E c \in PathCables(trace(cable, e).path) : status[c] = STATUS_PLANNED)
          => connection_status[e] = False
    /\ last.op = "retrace" =>
          \A e \in Range(instances(get_models(last.names).models)) :
              cable[e] = NoCable => connection_status[e] = False

\* C7 witness: the batch rebuild visited an endpoint whose path has only connected
\* cables but ends in a segment without a cable, and an endpoint connected over a
\* path with a planned cable
StatusIffEverySegmentConnectedWitness ==
    /\ last.op = "retrace"
    /\ \E e \in Interfaces :
        LET tr == trace(cable, e)
        IN /\ PathCables(tr.path) # {}
           /\ \A c \in PathCables(tr.path) : status[c] = STATUS_CONNECTED
           /\ tr.path[Len(tr.path)][2] = NoCable
           /\ connection_status[e] = False
    /\ \E e \in Interfaces :
        /\ connected_endpoint[e] # None
        /\ connection_status[e] = False

\* C8: with a real endpoint cabled to a single-position rear port and another to
\* its front port, whichever cable came first, the two endpoints are connected to
\* each other and no port is recorded.
SinglePositionPassThrough ==
    /\ \A r \in RearPorts :
        (/\ positions(r) = 1
         /\ get_mapping(r, 1) # None
         /\ cable[r] # NoCable
         /\ cable[get_mapping(r, 1)] # NoCable)
        => LET x == get_far_side(cable[r], r)
               y == get_far_side(cable[get_mapping(r, 1)], get_mapping(r, 1))
           IN (x \in RealEndpoints /\ y \in RealEndpoints)
              => (connected_endpoint[x] = y /\ connected_endpoint[y] = x)
    /\ \A t \in Terminations :
        connected_endpoint[t] \notin Ports /\ (t \in Ports => connected_endpoint[t] = None)

\* C8 witness: both cables of the chain exist and its two endpoints are connected
SinglePositionPassThroughWitness ==
    /\ last.op = "save"
    /\ \E r \in RearPorts :
        /\ positions(r) = 1
        /\ get_mapping(r, 1) # None
        /\ cable[r] # NoCable
        /\ cable[get_mapping(r, 1)] # NoCable
        /\ get_far_side(cable[r], r) \in RealEndpoints
        /\ connected_endpoint[get_far_side(cable[r], r)]
             = get_far_side(cable[get_mapping(r, 1)], get_mapping(r, 1))

\* C9: across a trunk between two multi-position rear ports, the endpoint on
\* position p of one is connected to the endpoint on position p of the other and
\* to no endpoint on another position.
TrunkKeepsPosition ==
    \A c \in TrunkCables :
        Exists(c) =>
            \A p \in 1 .. positions(termination_a(c)), q \in 1 .. positions(termination_b(c)) :
                LET x == EndpointOn(termination_a(c), p)
                    y == EndpointOn(termination_b(c), q)
                IN (x # None /\ y # None) =>
                      IF p = q
                      THEN connected_endpoint[x] = y /\ connected_endpoint[y] = x
                      ELSE connected_endpoint[x] # y /\ connected_endpoint[y] # x

\* C9 witness: the trunk and an endpoint cable on both positions of both rear
\* ports exist, and the endpoints on position 2 are connected to each other
TrunkKeepsPositionWitness ==
    /\ last.op = "save"
    /\ \E c \in TrunkCables :
        /\ Exists(c)
        /\ \A p \in 1 .. 2 :
            /\ EndpointOn(termination_a(c), p) # None
            /\ EndpointOn(termination_b(c), p) # None
        /\ connected_endpoint[EndpointOn(termination_a(c), 2)]
             = EndpointOn(termination_b(c), 2)

NextHop(cab, h) ==
    LET next == IF h.current = None \/ cab[h.current] = NoCable THEN None
                ELSE get_far_side(cab[h.current], h.current)
    IN IF next = None \/ next \in RealEndpoints THEN [current |-> None, stack |-> h.stack]
       ELSE IF next \in FrontPorts THEN
           [current |-> rear_port(next),
            stack |-> IF positions(rear_port(next)) > 1
                      THEN Append(h.stack, rear_port_position(next)) ELSE h.stack]
       ELSE IF positions(next) = 1 THEN [current |-> get_mapping(next, 1), stack |-> h.stack]
       ELSE IF h.stack # <<>> THEN
           [current |-> get_mapping(next, Top(h.stack)), stack |-> Pop(h.stack)]
       ELSE [current |-> None, stack |-> h.stack]

\* the terminations the walk from t continues from, for n passes of the loop
RECURSIVE Walk(_, _, _)
Walk(cab, h, n) ==
    IF n = 0 \/ h.current = None THEN <<>>
    ELSE <<h.current>> \o Walk(cab, NextHop(cab, h), n - 1)

\* the chain of cables and mappings from t comes back to a termination it has left:
\* among one more terminations than there are, one is met twice
Revisits(cab, t) ==
    LET w == Walk(cab, [current |-> t, stack |-> <<>>], Cardinality(Terminations) + 1)
    IN \E i, j \in 1 .. Len(w) : i < j /\ w[i] = w[j]

\* the instances a batch rebuild with the arguments `names` is to visit
Requested(names) == Range(instances(get_models(names).models))

RebuildContinuesPastCycle ==
    last.op = "retrace" =>
        \A e \in Requested(last.names) : ~trace(cable, e).cycle => e \in last.done

\* C13: a batch rebuild given a list of types of which one has no connected
\* endpoint, or is no cable termination, does no work: no endpoint of any type of
\* the list is reconciled or saved, and no cache field changes.
InvalidTypeNoWork ==
    [][(\E i \in 1 .. Len(last'.names) : ~HasConnectedEndpoint(last'.names[i])) =>
          /\ last'.op = "error"
          /\ last'.done = {}
          /\ last'.writes = 0
          /\ connected_endpoint' = connected_endpoint
          /\ connection_status' = connection_status]_vars

\* C13 witness: the command was given the interfaces and then the front ports and
\* ended with the error, and an interface still has a cached connection that its
\* trace does not give
InvalidTypeNoWorkWitness ==
    /\ last.op = "error"
    /\ last.names = <<INTERFACE, FRONTPORT>>
    /\ \E e \in Interfaces :
        connected_endpoint[e] # None /\ ~Qualifies(trace(cable, e))

\* C14: a termination's cable reference matches reality: both terminations of an
\* existing cable reference it, a termination references only an existing cable
\* that it terminates, and the terminations of the cable just deleted reference no
\* cable.
CableReferenceMatches ==
    /\ \A c \in Cables :
          Exists(c) => cable[termination_a(c)] = c /\ cable[termination_b(c)] = c
    /\ \A t \in Terminations :
          cable[t] # NoCable =>
              /\ Exists(cable[t])
              /\ t \in {termination_a(cable[t]), termination_b(cable[t])}
    /\ last.op = "delete" =>
          /\ cable[termination_a(last.c)] = NoCable
          /\ cable[termination_b(last.c)] = NoCable

\* C14 witness: a cable was deleted while other cables exist, after which one of
\* its terminations could have been given another cable
CableReferenceMatchesWitness ==
    /\ last.op = "delete"
    /\ \E c \in Cables : Exists(c)
    /\ \E c \in Cables \ {last.c} :
          ~Exists(c) /\ {termination_a(c), termination_b(c)}
                           \cap {termination_a(last.c), termination_b(last.c)} # {}

\* C18: the cached connections are symmetric: whenever A is cached as connected to
\* B, B is cached as connected to A with the same status.
CacheSymmetric ==
    \A a \in Terminations :
        connected_endpoint[a] # None =>
            /\ connected_endpoint[connected_endpoint[a]] = a
            /\ connection_status[connected_endpoint[a]] = connection_status[a]

\* C18 witness: after a cable was deleted a pair is still cached, with status
\* false on both ends, over a path that runs through ports
CacheSymmetricWitness ==
    /\ last.op = "delete"
    /\ \E a \in RealEndpoints :
        /\ connected_endpoint[a] # None
        /\ connection_status[a] = False
        /\ connection_status[connected_endpoint[a]] = False
        /\ Len(trace(cable, a).path) > 1

\* C19 (as claimed): an endpoint without a connected endpoint has status none, and
\* an endpoint with a connected endpoint has status true or false.
StatusNoneIffUnconnected ==
    \A e \in RealEndpoints :
        /\ connected_endpoint[e] = None => connection_status[e] = None
        /\ connected_endpoint[e] # None => connection_status[e] \in {True, False}

\* C20 (as claimed): a batch rebuild over all endpoint types that follows cable
\* events handled incrementally changes no cache field.
RebuildAgreesWithIncremental ==
    [][(last.op \in {"init", "save", "delete"} /\ last'.op = "retrace" /\ last'.names = <<>>) =>
          /\ connected_endpoint' = connected_endpoint
          /\ connection_status' = connection_status]_vars

\* the workers that have saved the endpoint e during the scan
Writers(e) == {w \in Workers : e \in scan[w].wrote}

\* the scan has ended with every worker through its share
ScanDone == \A w \in Workers : scan[w].state = "done"

\* C15 (as claimed): a worker saves only the terminations of its own share, so no
\* endpoint is saved by two workers.
WorkersWriteOwnShare ==
    \A e \in RealEndpoints :
        /\ \A w \in Writers(e) : e \in Range(scan[w].share)
        /\ Cardinality(Writers(e)) <= 1

\* C15 (amended): a worker saves the terminations of its share and, where a pair
\* is recorded, their far endpoints, so two workers may save the same endpoint; but
\* every save gives an endpoint the values its own trace resolves to, so that from
\* its first save on the cache of an endpoint is the same whatever the order of the
\* workers' steps.
WorkersWriteSameValues ==
    \A e \in RealEndpoints : \A w \in Writers(e) :
        LET tr == trace(cable, e)
        IN /\ \/ e \in Range(scan[w].share)
              \/ \E a \in Range(scan[w].share) :
                    Qualifies(trace(cable, a)) /\ FarEnd(trace(cable, a)) = e
           /\ connected_endpoint[e] = (IF Qualifies(tr) THEN FarEnd(tr) ELSE None)
           /\ connection_status[e] = (IF FullyConnected(tr) THEN True ELSE False)

\* C15 witness: two workers with disjoint shares are both through, an endpoint was
\* saved by both, and another by the worker alone that it was given to
WorkersWriteSameValuesWitness ==
    /\ ScanDone
    /\ \A w \in Workers : scan[w].share # <<>>
    /\ \E e \in RealEndpoints : Writers(e) = Workers
    /\ \E e \in RealEndpoints : Cardinality(Writers(e)) = 1

\* C16 (as claimed): a worker that was interrupted has left no pair with
\* endpoint_a saved and endpoint_b not.
InterruptLeavesNoHalfPair ==
    \A w \in Workers :
        scan[w].state = "interrupted" => scan[w].pending = NoPending

\* the fallback applies to a trace result: the trace ended unambiguously, the last
\* segment has no far end, and the segment before it ends at a circuit termination
FallbackApplies(tr) ==
    /\ ~tr.split_ends
    /\ tr.position_stack = <<>>
    /\ Len(tr.path) >= 2
    /\ tr.path[Len(tr.path)][3] = None
    /\ tr.path[Len(tr.path) - 1][3] \in CircuitTerminations

\* C17: where the fallback applies, the circuit termination at the far end of the
\* second-to-last segment is recorded as endpointB; for an ambiguous trace nothing
\* is recorded, fallback or not; and the incremental handler and the batch rebuild
\* choose the same endpointB for the same trace result.
FallbackRule ==
    last.op \in {"update_endpoint", "retrace_endpoint"} =>
        LET tr == last.tr
            a == tr.path[1][1]
        IN /\ FallbackApplies(tr) =>
                 /\ connected_endpoint[a] = tr.path[Len(tr.path) - 1][3]
                 /\ connected_endpoint[tr.path[Len(tr.path) - 1][3]] = a
           /\ (tr.split_ends \/ tr.position_stack # <<>>) =>
                 \A t \in Terminations : connected_endpoint[t] = None
           /\ endpoint_b(tr) = retrace_endpoint_b(tr)

\* C17 witness: the batch rebuild's loop body met a path of two segments whose
\* first ends at the circuit termination and whose second has no cable, and
\* recorded the circuit termination
FallbackRuleWitness ==
    /\ last.op = "retrace_endpoint"
    /\ FallbackApplies(last.tr)
    /\ last.tr.path[2][2] = NoCable
    /\ connected_endpoint["I1"] = "CT"
    /\ connected_endpoint["CT"] = "I1"

====
